---- MODULE Spec2Model ----
(***************************************************************************)
(* Model of the workflow executor of orchestrator/lib/pipeline.js           *)
(* (class Pipeline): run, executeStep, getAgent, createMockAgent,           *)
(* handleConfirmPoint, saveState and loadState, together with the three     *)
(* confirmation prompts of shared/lib/prompter.js it dispatches to.         *)
(*                                                                          *)
(* JavaScript objects are modelled as functions whose DOMAIN is the set of  *)
(* own properties, so that an absent property is a key outside the DOMAIN.  *)
(* Step indices are 0-based as in the code; step i of the workflow is       *)
(* wf[i + 1].                                                               *)
(***************************************************************************)
EXTENDS Integers, Sequences, FiniteSets, TLC

\* ------------------------------------------------------------------ bounds
\* Longest workflow explored.
MaxSteps == 3
\* Number of run() calls made on the one Pipeline instance.
MaxRuns == 2

\* ------------------------------------------------------- input domains
\* Keys and values of the free-form ExecutionInput / result.output mappings.
Keys == {"trends", "style"}
Vals == {1, 2}

\* An object without own properties.
EmptyMap == [k \in {} |-> 0]

\* Every mapping with at most one key (the outputs agents produce here).
SmallMaps == {EmptyMap} \cup {(k :> v) : k \in Keys, v \in Vals}

\* The table agentPaths of getAgent: the names that are registered.
agentPaths == {"research_agent", "creative_writer_agent",
               "rights_checker_agent", "editor_agent"}

\* The steps workflows are built from.  publisher_agent has no entry in
\* agentPaths; two of the steps share the id "draft".
StepCatalogue ==
  { [agent |-> "research_agent", confirm |-> TRUE, confirmType |-> "trends"],
    [agent |-> "creative_writer_agent", id |-> "draft", output |-> "drafts"],
    [agent |-> "editor_agent", id |-> "draft", confirm |-> TRUE,
       confirmType |-> "suggestions"],
    [agent |-> "publisher_agent", confirm |-> TRUE, confirmType |-> "trends"],
    [agent |-> "publisher_agent", id |-> "final", confirm |-> TRUE],
    [agent |-> "rights_checker_agent", confirm |-> TRUE,
       confirmType |-> "default"] }

\* The workflow documents: every non-empty list of at most MaxSteps steps.
Workflows ==
  UNION { [1..n -> StepCatalogue] : n \in 1..MaxSteps }

\* The workflows on which run() is called repeatedly.
ShortWorkflows == { w \in Workflows : Len(w) <= 2 }

\* The workflows run with the full range of agent outputs: no confirmation
\* before the last step.
PlainWorkflows ==
  { w \in Workflows : \A n \in 1..(Len(w) - 1) : "confirm" \notin DOMAIN w[n] }

\* The results a loaded agent module may return from execute: the shapes the
\* agents of this repository return, and a cancellation.
BasicResults ==
  { [success |-> TRUE, output |-> ("trends" :> 1)],
    [success |-> FALSE],
    [success |-> FALSE, cancelled |-> TRUE] }

\* The same with every small output mapping.
RichResults ==
  BasicResults \cup { [success |-> TRUE, output |-> o] : o \in SmallMaps }
    \cup { [success |-> FALSE, output |-> ("style" :> 2)] }

\* The environments explored: how often the caller calls run(), whether it
\* calls saveState and loadState between the runs, what the agents may
\* return, and the initial inputs the caller passes.
ControlEnv ==
  [runs |-> 1, checkpoints |-> FALSE, results |-> BasicResults,
   inputs |-> {("trends" :> 1)}]
RerunEnv ==
  [runs |-> MaxRuns, checkpoints |-> TRUE, results |-> BasicResults,
   inputs |-> {("trends" :> 1)}]
DataEnv ==
  [runs |-> 1, checkpoints |-> FALSE, results |-> RichResults,
   inputs |-> {EmptyMap, ("trends" :> 2), ("trends" :> 1) @@ ("style" :> 1)}]

\* ---------------------------------------------------------------- state
VARIABLES
  wf,            \* the workflow document's steps (fixed at load time)
  wfFile,        \* environment: what the workflow file holds
  autoMode,      \* this.autoMode
  env,           \* environment: the caller's and the agents' behaviour
  loadable,      \* environment: the registered agents whose module loads
  agents,        \* this.agents, the per-instance agent cache
  state,         \* this.state = {currentStep, status, results}
  disk,          \* the checkpoint document .pipeline_state.json, if any
  pc,            \* where the current run() call is
  i,             \* run's loop variable
  currentInput,  \* run's local currentInput
  objects,       \* the input mappings in order of creation: the caller's,
                 \* run's copy of it, then one per merge; currentInput
                 \* refers to the last one
  outcome,       \* the value the last run() call returned
  runNo,         \* number of run() calls started so far
  runInput,      \* history: the argument of the current run() call
  origin,        \* history: for each key of results, the call that wrote it
  execLog,       \* history: the execute calls of the current run
  retLog,        \* history: what each execute call of the current run did
  gateLog,       \* history: the gate invocations of the current run
  reply,         \* history: what the last prompt of the run resolved with
  other          \* a second run() call overlapping the first: its locals
                 \* pc, i, currentInput, outcome, the kind of its pending
                 \* gate, whether it is made on the same Pipeline instance
                 \* and, if not, its instance's state and agents

vars == <<wf, wfFile, autoMode, env, loadable, agents, state, disk, pc, i,
          currentInput, objects,
          outcome, runNo, runInput, origin, execLog, retLog, gateLog, reply,
          other>>

\* ------------------------------------------------------------- helpers
\* The value of a property that is present but undefined.
Undefined == "undefined"

\* JavaScript's  obj.field || dflt  for an optional string field.
Field(obj, f, dflt) == IF f \in DOMAIN obj THEN obj[f] ELSE dflt

\* JavaScript truthiness of an optional boolean field.
Truthy(obj, f) == f \in DOMAIN obj /\ obj[f] = TRUE

\* The spread  { ...a, ...b } : b's properties win.
Spread(a, b) ==
  [k \in (DOMAIN a) \cup (DOMAIN b) |-> IF k \in DOMAIN b THEN b[k] ELSE a[k]]

\* step.id || step.agent : the key a step's result is recorded under.
StepKey(step) == Field(step, "id", step.agent)

\* The options object executeStep builds for a step.
StepOptions(step) ==
  [projectPath |-> "project", outputPath |-> Field(step, "output", Undefined)]

\* Variant: the mock's fields wrapped in an output mapping.
MockExecuteWrapped(input, options) ==
  [success |-> TRUE,
   output |-> [mock |-> TRUE, input |-> input, options |-> options]]

\* createMockAgent(...).execute(input, options)
MockExecute(input, options) ==
  [success |-> TRUE, mock |-> TRUE, input |-> input, options |-> options]

\* Variant: a cached mock does not count as cached, the load is tried again.
GetAgentRetriesMock(cache, name) ==
  IF name \in DOMAIN cache /\ cache[name] # "mock" THEN cache
  ELSE IF name \in agentPaths /\ name \in loadable
         THEN [n \in DOMAIN cache \cup {name} |->
                 IF n = name THEN "module" ELSE cache[n]]
         ELSE [n \in DOMAIN cache \cup {name} |->
                 IF n = name THEN "mock" ELSE cache[n]]

\* getAgent: the cache after resolving name.
GetAgent(cache, name) ==
  IF name \in DOMAIN cache THEN cache
  ELSE IF name \in agentPaths /\ name \in loadable
         THEN cache @@ (name :> "module")
         ELSE cache @@ (name :> "mock")

\* The choices of the three prompts.
TrendActions == {"continue", "edit", "add", "retry", "cancel"}
SuggestionActions == {"apply", "skip", "manual", "cancel"}
Answers == {"", "y", "YES", " n", "no", "ok"}

\* answer.trim().toLowerCase() on the answers above.
normalized(answer) ==
  CASE answer = "YES" -> "yes"
    [] answer = " n" -> "n"
    [] OTHER -> answer

\* Variant: the default is not consulted, an empty answer is not a yes.
confirmIgnoresDefault(answer, defaultYes) == answer \in {"y", "yes"}

\* confirm(question, defaultYes) on an already trimmed, lower-cased answer.
confirm(answer, defaultYes) ==
  IF answer = "" THEN defaultYes ELSE answer \in {"y", "yes"}

Step(j) == wf[j + 1]

\* readJson(workflowPath) in loadWorkflow: a missing, empty or unparsable file
\* gives defaultValue, otherwise the parsed document.
readJson(defaultValue) ==
  IF wfFile \in {"missing", "unparsable"} THEN defaultValue
  ELSE IF wfFile = "nosteps" THEN [name |-> "default"]
  ELSE [name |-> "default", steps |-> wf]

\* Variant: only the document itself is tested, and {} is truthy.
workflowFoundAnyDocument(workflow) == TRUE

\* loadWorkflow's test  !(!workflow || !workflow.steps)
workflowFound(workflow) == "steps" \in DOMAIN workflow

\* Variant: a result that reports failure is taken as a cancellation too.
IsCancelledOrFailed(result) ==
  Truthy(result, "cancelled") \/ ~Truthy(result, "success")

\* Variant: the test reads a misspelt property, which is never set.
IsCancelledMisspelt(result) == Truthy(result, "canceled")

\* run's test  result.cancelled
IsCancelled(result) == Truthy(result, "cancelled")

\* Variant: the test ignores the mode.
NeedsConfirmIgnoresAuto(step) == Truthy(step, "confirm")

\* run's test  step.confirm && !this.autoMode
NeedsConfirm(step) == Truthy(step, "confirm") /\ ~autoMode

\* Variant: the spread in the opposite order, so that the first writer wins.
MergeOutputFirstWins(input, result) ==
  Spread(Field(result, "output", EmptyMap), input)

\* run's merge  { ...currentInput, ...result.output }
MergeOutput(input, result) == Spread(input, Field(result, "output", EmptyMap))

\* Variant: an entry already recorded under the key is kept.
RecordResultKeepsFirst(results, key, result) ==
  Spread(key :> result, results)

\* run's  this.state.results[step.id || step.agent] = result
RecordResult(results, key, result) == Spread(results, key :> result)

\* Variant: the merge assigns into the mapping currentInput refers to.
MergeIntoCopyInPlace(objs, result) ==
  [objs EXCEPT ![Len(objs)] = MergeOutput(@, result)]

\* The objects after run's merge: the spread builds a new mapping, the one
\* currentInput referred to is left as it is.
MergeIntoCopy(objs, result) ==
  Append(objs, MergeOutput(objs[Len(objs)], result))

\* ----------------------------------------------------------------- Init
\* The state of a newly constructed Pipeline.
NewState == [currentStep |-> 0, status |-> "idle", results |-> EmptyMap]

\* The second call before it is made, on the same instance or on another
\* instance of the same project.
NotCalled(same) ==
  [same |-> same, pc |-> "ready", i |-> 0, currentInput |-> EmptyMap,
   outcome |-> EmptyMap, kind |-> "default", state |-> NewState,
   agents |-> EmptyMap]

Init ==
  /\ \/ wfFile = "json" /\ wf \in Workflows /\ env = ControlEnv
     \/ wfFile = "json" /\ wf \in ShortWorkflows /\ env = RerunEnv
     \/ wfFile = "json" /\ wf \in PlainWorkflows /\ env = DataEnv
     \/ wfFile \in {"missing", "unparsable", "nosteps"} /\ wf = <<>>
          /\ env = RerunEnv
  /\ autoMode \in BOOLEAN
  /\ loadable \in { agentPaths \ faulty :
                      faulty \in SUBSET (IF env.checkpoints
                                           THEN {"editor_agent"} \cap
                                                {wf[n].agent : n \in DOMAIN wf}
                                           ELSE {}) }
  /\ agents = EmptyMap
  /\ state = [currentStep |-> 0, status |-> "idle", results |-> EmptyMap]
  /\ disk = EmptyMap
  /\ pc = "ready"
  /\ i = 0
  /\ currentInput = EmptyMap
  /\ objects = <<>>
  /\ outcome = EmptyMap
  /\ runNo = 0
  /\ runInput = EmptyMap
  /\ origin = EmptyMap
  /\ execLog = <<>>
  /\ retLog = <<>>
  /\ gateLog = <<>>
  /\ reply = ""
  /\ other = NotCalled(TRUE)

\* ------------------------------------------------------- run, piecewise
\* Variant: the assignment of the final status is lost.
ReturnLeavesRunning(st, out) ==
  /\ state' = [st EXCEPT !.status = "running"]
  /\ outcome' = out
  /\ pc' = "returned"
  /\ UNCHANGED <<agents, i, currentInput>>

\* run returns the value out, leaving this.state = st.
Return(st, out) ==
  /\ state' = st
  /\ outcome' = out
  /\ pc' = "returned"
  /\ UNCHANGED <<agents, i, currentInput>>

\* Variant: this.state.currentStep is not assigned in the loop.
LoopKeepsCurrentStep(j, st, input, log) ==
  IF j < Len(wf)
    THEN /\ state' = st
         /\ agents' = GetAgent(agents, Step(j).agent)
         /\ i' = j
         /\ currentInput' = input
         /\ execLog' = Append(log, [step |-> j, input |-> input,
                                    options |-> StepOptions(Step(j))])
         /\ outcome' = EmptyMap
         /\ pc' = "exec"
    ELSE /\ execLog' = log
         /\ Return([st EXCEPT !.status = "completed"],
                   [success |-> TRUE, results |-> st.results])

\* Variant: the loop bound is off by one, so that the last step is skipped.
LoopEndsEarly(j, st, input, log) ==
  IF j + 1 < Len(wf)
    THEN /\ state' = [st EXCEPT !.currentStep = j]
         /\ agents' = GetAgent(agents, Step(j).agent)
         /\ i' = j
         /\ currentInput' = input
         /\ execLog' = Append(log, [step |-> j, input |-> input,
                                    options |-> StepOptions(Step(j))])
         /\ outcome' = EmptyMap
         /\ pc' = "exec"
    ELSE /\ execLog' = log
         /\ Return([st EXCEPT !.status = "completed"],
                   [success |-> TRUE, results |-> st.results])

\* The head of run's loop for index j: either executeStep is entered (getAgent,
\* then agent.execute is called and awaited) or the loop is over and run
\* returns the completed outcome.
Loop(j, st, input, log) ==
  IF j < Len(wf)
    THEN /\ state' = [st EXCEPT !.currentStep = j]
         /\ agents' = GetAgent(agents, Step(j).agent)
         /\ i' = j
         /\ currentInput' = input
         /\ execLog' = Append(log, [step |-> j, input |-> input,
                                    options |-> StepOptions(Step(j))])
         /\ outcome' = EmptyMap
         /\ pc' = "exec"
    ELSE /\ execLog' = log
         /\ Return([st EXCEPT !.status = "completed"],
                   [success |-> TRUE, results |-> st.results])

\* Variant: the prompt is started but not awaited, the loop goes on at once.
handleConfirmPointNoWait(st, input, result) ==
  LET confirmType == Field(Step(i), "confirmType", "default")
      kind == IF confirmType \in {"trends", "suggestions"}
                THEN confirmType ELSE "default"
  IN  IF kind # "default" /\ "output" \notin DOMAIN result
        THEN /\ Return([st EXCEPT !.status = "error"],
                       [success |-> FALSE, error |-> "TypeError", step |-> i])
             /\ UNCHANGED <<execLog, gateLog>>
        ELSE /\ gateLog' = Append(gateLog,
                  [step |-> i, kind |-> kind,
                   list |-> IF kind # "default" /\ kind \in DOMAIN result.output
                              THEN {result.output[kind]} ELSE {}])
             /\ Loop(i + 1, st, input, execLog)

\* handleConfirmPoint up to the await of the prompt it dispatches to.  Reading
\* result.output.trends (or .suggestions) of a result without output raises
\* a TypeError, which run's catch turns into the error outcome.
handleConfirmPoint(st, input, result) ==
  LET confirmType == Field(Step(i), "confirmType", "default")
      kind == IF confirmType \in {"trends", "suggestions"}
                THEN confirmType ELSE "default"
  IN  IF kind # "default" /\ "output" \notin DOMAIN result
        THEN /\ Return([st EXCEPT !.status = "error"],
                       [success |-> FALSE, error |-> "TypeError", step |-> i])
             /\ UNCHANGED <<execLog, gateLog>>
        ELSE /\ state' = st
             /\ currentInput' = input
             /\ gateLog' = Append(gateLog,
                  [step |-> i, kind |-> kind,
                   list |-> IF kind # "default" /\ kind \in DOMAIN result.output
                              THEN {result.output[kind]} ELSE {}])
             /\ pc' = "gate"
             /\ UNCHANGED <<agents, i, outcome, execLog>>

\* run(input): loadWorkflow, status = 'running', currentInput = { ...input },
\* then the loop up to the first await.
Run(input) ==
  /\ pc \in {"ready", "returned", "threw"}
  /\ input \in env.inputs
  /\ runNo < env.runs
  /\ workflowFound(readJson(EmptyMap))
  /\ runNo' = runNo + 1
  /\ runInput' = input
  /\ retLog' = <<>>
  /\ gateLog' = <<>>
  /\ reply' = ""
  /\ objects' = <<input, Spread(EmptyMap, input)>>
  /\ Loop(0, [state EXCEPT !.status = "running"], Spread(EmptyMap, input), <<>>)
  /\ UNCHANGED <<other, wf, wfFile, autoMode, env, loadable,
                 disk, origin>>

\* run(input) when loadWorkflow throws: the error leaves run before
\* this.state is touched.
RunThrows(input) ==
  /\ pc \in {"ready", "returned", "threw"}
  /\ input \in env.inputs
  /\ runNo < env.runs
  /\ ~workflowFound(readJson(EmptyMap))
  /\ runNo' = runNo + 1
  /\ runInput' = input
  /\ execLog' = <<>>
  /\ retLog' = <<>>
  /\ gateLog' = <<>>
  /\ reply' = ""
  /\ outcome' = [thrown |-> "workflow not found"]
  /\ objects' = <<input>>
  /\ pc' = "threw"
  /\ UNCHANGED <<other, wf, wfFile, autoMode, env, loadable,
                 agents, state, disk, i,
                 currentInput, origin>>

\* Variant: the error outcome carries the 1-based step number of the log line.
ExecuteThrowsOneBased ==
  /\ pc = "exec"
  /\ agents[Step(i).agent] = "module"
  /\ retLog' = Append(retLog, [threw |-> TRUE])
  /\ Return([state EXCEPT !.status = "error"],
            [success |-> FALSE, error |-> "Error", step |-> i + 1])
  /\ UNCHANGED <<other, wf, wfFile, autoMode, env, loadable,
                 disk, runNo, runInput,
                 origin,
                 execLog, gateLog, reply, objects>>

\* agent.execute throws (or rejects): the catch of run makes the error outcome.
ExecuteThrows ==
  /\ pc = "exec"
  /\ agents[Step(i).agent] = "module"
  /\ retLog' = Append(retLog, [threw |-> TRUE])
  /\ Return([state EXCEPT !.status = "error"],
            [success |-> FALSE, error |-> "Error", step |-> i])
  /\ UNCHANGED <<other, wf, wfFile, autoMode, env, loadable,
                 disk, runNo, runInput,
                 origin,
                 execLog, gateLog, reply, objects>>

\* Variant: the result is recorded before the cancellation test.
ExecuteReturnsRecordsFirst(result) ==
  /\ pc = "exec"
  /\ result \in (IF agents[Step(i).agent] = "mock"
                   THEN {MockExecute(currentInput, StepOptions(Step(i)))}
                   ELSE env.results)
  /\ retLog' = Append(retLog, result)
  /\ LET key == StepKey(Step(i))
         st1 == [state EXCEPT !.results = RecordResult(@, key, result)]
         in1 == MergeOutput(currentInput, result)
     IN  /\ origin' = Spread(origin, key :> [run |-> runNo, step |-> i])
         /\ IF IsCancelled(result)
              THEN /\ Return([st1 EXCEPT !.status = "cancelled"],
                             [success |-> FALSE, cancelled |-> TRUE])
                   /\ UNCHANGED <<execLog, gateLog, objects>>
              ELSE /\ objects' = MergeIntoCopy(objects, result)
                   /\ IF NeedsConfirm(Step(i))
                        THEN handleConfirmPoint(st1, in1, result)
                        ELSE /\ Loop(i + 1, st1, in1, execLog)
                             /\ UNCHANGED gateLog
  /\ UNCHANGED <<other, wf, wfFile, autoMode, env, loadable,
                 disk, runNo, runInput,
                 reply>>

\* agent.execute returns result: the rest of the loop body, and the loop up to
\* the next await.
ExecuteReturns(result) ==
  /\ pc = "exec"
  /\ result \in (IF agents[Step(i).agent] = "mock"
                   THEN {MockExecute(currentInput, StepOptions(Step(i)))}
                   ELSE env.results)
  /\ retLog' = Append(retLog, result)
  /\ IF IsCancelled(result)
       THEN /\ Return([state EXCEPT !.status = "cancelled"],
                      [success |-> FALSE, cancelled |-> TRUE])
            /\ UNCHANGED <<origin, execLog, gateLog, objects>>
       ELSE LET key == StepKey(Step(i))
                st1 == [state EXCEPT !.results = RecordResult(@, key, result)]
                in1 == MergeOutput(currentInput, result)
            IN  /\ origin' = Spread(origin, key :> [run |-> runNo, step |-> i])
                /\ objects' = MergeIntoCopy(objects, result)
                /\ IF NeedsConfirm(Step(i))
                     THEN handleConfirmPoint(st1, in1, result)
                     ELSE /\ Loop(i + 1, st1, in1, execLog)
                          /\ UNCHANGED gateLog
  /\ UNCHANGED <<other, wf, wfFile, autoMode, env, loadable,
                 disk, runNo, runInput,
                 reply>>

\* Variant: a declined gate asks again instead of returning.
AfterGateAsksAgain(shouldContinue) ==
  /\ gateLog' = [gateLog EXCEPT ![Len(gateLog)] =
                   @ @@ ("shouldContinue" :> shouldContinue)]
  /\ IF ~shouldContinue
       THEN UNCHANGED <<state, agents, i, currentInput, outcome, pc, execLog>>
       ELSE Loop(i + 1, state, currentInput, execLog)
  /\ UNCHANGED <<other, wf, wfFile, autoMode, env, loadable,
                 disk, runNo, runInput,
                 origin,
                 retLog, objects>>

\* Variant: the test of shouldContinue is inverted.
AfterGateInverted(shouldContinue) ==
  /\ gateLog' = [gateLog EXCEPT ![Len(gateLog)] =
                   @ @@ ("shouldContinue" :> shouldContinue)]
  /\ IF shouldContinue
       THEN /\ Return([state EXCEPT !.status = "paused"],
                      [success |-> FALSE, paused |-> TRUE, step |-> i])
            /\ UNCHANGED execLog
       ELSE Loop(i + 1, state, currentInput, execLog)
  /\ UNCHANGED <<other, wf, wfFile, autoMode, env, loadable,
                 disk, runNo, runInput,
                 origin,
                 retLog, objects>>

\* The rest of the loop body once handleConfirmPoint has returned
\* shouldContinue.
AfterGate(shouldContinue) ==
  /\ gateLog' = [gateLog EXCEPT ![Len(gateLog)] =
                   @ @@ ("shouldContinue" :> shouldContinue)]
  /\ IF ~shouldContinue
       THEN /\ Return([state EXCEPT !.status = "paused"],
                      [success |-> FALSE, paused |-> TRUE, step |-> i])
            /\ UNCHANGED execLog
       ELSE Loop(i + 1, state, currentInput, execLog)
  /\ UNCHANGED <<other, wf, wfFile, autoMode, env, loadable,
                 disk, runNo, runInput,
                 origin,
                 retLog, objects>>

\* Variant: every action but cancel continues.
GateTrendsCancelOnly(action) ==
  /\ pc = "gate"
  /\ gateLog[Len(gateLog)].kind = "trends"
  /\ reply' = action
  /\ AfterGate(action # "cancel")

\* confirmTrends resolves with the chosen action.
GateTrends(action) ==
  /\ pc = "gate"
  /\ gateLog[Len(gateLog)].kind = "trends"
  /\ reply' = action
  /\ AfterGate(action = "continue")

\* Variant: only apply continues.
GateSuggestionsApplyOnly(action) ==
  /\ pc = "gate"
  /\ gateLog[Len(gateLog)].kind = "suggestions"
  /\ reply' = action
  /\ AfterGate(action = "apply")

\* confirmSuggestions resolves with { action }.
GateSuggestions(action) ==
  /\ pc = "gate"
  /\ gateLog[Len(gateLog)].kind = "suggestions"
  /\ reply' = action
  /\ AfterGate(action # "cancel")

\* confirm(message, true) resolves from the typed answer.
GateDefault(answer) ==
  /\ pc = "gate"
  /\ gateLog[Len(gateLog)].kind = "default"
  /\ reply' = answer
  /\ AfterGate(confirm(normalized(answer), TRUE))

\* Variant: the fault of the prompt leaves run uncaught.
GateThrowsEscapes ==
  /\ pc = "gate"
  /\ outcome' = [thrown |-> "Error"]
  /\ pc' = "threw"
  /\ UNCHANGED <<other, wf, wfFile, autoMode, env, loadable,
                 agents, state, disk, i,
                 currentInput, runNo, runInput, origin, execLog, retLog,
                 gateLog, reply, objects>>

\* The awaited prompt rejects (its readline interface throws): the await in
\* handleConfirmPoint rethrows inside run's try, and the catch makes the
\* error outcome.
GateThrows ==
  /\ pc = "gate"
  /\ Return([state EXCEPT !.status = "error"],
            [success |-> FALSE, error |-> "Error", step |-> i])
  /\ UNCHANGED <<other, wf, wfFile, autoMode, env, loadable,
                 disk, runNo, runInput,
                 origin, execLog, retLog, gateLog, reply, objects>>

\* ------------------------------------------------------ the environment
\* The module of a registered agent that failed to load becomes loadable
\* (require does not remember a failed load).
ModuleRepaired ==
  /\ loadable # agentPaths
  /\ loadable' = agentPaths
  /\ UNCHANGED <<other, wf, wfFile, autoMode, env, agents, state, disk, pc, i,
                 currentInput, objects, outcome, runNo, runInput, origin,
                 execLog, retLog, gateLog, reply>>

\* ------------------------------------------------------- the checkpoint
\* JSON.stringify then JSON.parse of a result: properties whose value is
\* undefined are dropped.
JsonOptions(o) == [k \in {f \in DOMAIN o : o[f] # Undefined} |-> o[k]]

JsonResult(r) ==
  IF "options" \in DOMAIN r
    THEN [r EXCEPT !.options = JsonOptions(@)]
    ELSE r

Json(st) ==
  [st EXCEPT !.results = [k \in DOMAIN st.results |-> JsonResult(st.results[k])]]

\* saveState(): writeJson(statePath, this.state).  The checkpoint keeps, as
\* history, the state that was written and the origin of its results.
saveState ==
  /\ pc \in {"ready", "returned", "threw"}
  /\ env.checkpoints
  /\ disk' = [doc |-> Json(state), saved |-> state, origin |-> origin]
  /\ UNCHANGED <<other, wf, wfFile, autoMode, env, loadable,
                 agents, state, pc, i,
                 currentInput, outcome, runNo, runInput, origin, execLog,
                 retLog, gateLog, reply, objects>>

\* Variant: without a document the state of a new Pipeline is restored.
loadStateResetsWithoutDocument ==
  /\ pc \in {"ready", "returned", "threw"}
  /\ env.checkpoints
  /\ IF disk = EmptyMap
       THEN /\ state' = [currentStep |-> 0, status |-> "idle",
                        results |-> EmptyMap]
            /\ origin' = EmptyMap
       ELSE /\ state' = disk.doc
            /\ origin' = disk.origin
  /\ pc' = "ready"
  /\ UNCHANGED <<other, wf, wfFile, autoMode, env, loadable,
                 agents, disk, i,
                 currentInput, outcome, runNo, runInput, execLog, retLog,
                 gateLog, reply, objects>>

\* loadState(): readJson(statePath, null); a missing document changes nothing.
\* pc "returned" marks the state exactly as run() left it, so a call of
\* loadState moves on to "ready".
loadState ==
  /\ pc \in {"ready", "returned", "threw"}
  /\ env.checkpoints
  /\ IF disk = EmptyMap
       THEN UNCHANGED <<state, origin>>
       ELSE /\ state' = disk.doc
            /\ origin' = disk.origin
  /\ pc' = "ready"
  /\ UNCHANGED <<other, wf, wfFile, autoMode, env, loadable,
                 agents, disk, i,
                 currentInput, outcome, runNo, runInput, execLog, retLog,
                 gateLog, reply, objects>>

\* ----------------------------------------------------------------- Next
Next ==
  \/ \E input \in DataEnv.inputs \cup ControlEnv.inputs : Run(input)
  \/ \E input \in DataEnv.inputs \cup ControlEnv.inputs : RunThrows(input)
  \/ ExecuteThrows
  \/ \E result \in RichResults \cup
         (IF pc = "exec"
          THEN {MockExecute(currentInput, StepOptions(Step(i)))}
          ELSE {}) : ExecuteReturns(result)
  \/ \E action \in TrendActions : GateTrends(action)
  \/ \E action \in SuggestionActions : GateSuggestions(action)
  \/ \E answer \in Answers : GateDefault(answer)
  \/ GateThrows
  \/ ModuleRepaired
  \/ saveState
  \/ loadState

Spec == Init /\ [][Next]_vars

\* ------------------------------------------- two overlapping run() calls
\* The first call is the one of the actions above; the second call below is
\* the same code run on `other`, started while the first is suspended.  On
\* the same instance both calls work on this.state and this.agents.
OtherThis ==
  IF other.same THEN [state |-> state, agents |-> agents]
  ELSE [state |-> other.state, agents |-> other.agents]

\* The variables of the first call that the second call has no access to.
firstCallVars ==
  <<wf, wfFile, autoMode, env, loadable, disk, pc, i, currentInput, objects,
    outcome, runNo, runInput, origin, execLog, retLog, gateLog, reply>>

\* The second call assigns st to this.state and cache to this.agents, and
\* its locals become rec.
OtherAssigns(st, cache, rec) ==
  /\ IF other.same
       THEN /\ state' = st
            /\ agents' = cache
            /\ other' = rec
       ELSE /\ other' = [rec EXCEPT !.state = st, !.agents = cache]
            /\ UNCHANGED <<state, agents>>
  /\ UNCHANGED firstCallVars

OtherReturn(st, out) ==
  OtherAssigns(st, OtherThis.agents,
               [other EXCEPT !.outcome = out, !.pc = "returned"])

OtherLoop(j, st, input) ==
  IF j < Len(wf)
    THEN OtherAssigns([st EXCEPT !.currentStep = j],
                      GetAgent(OtherThis.agents, Step(j).agent),
                      [other EXCEPT !.i = j, !.currentInput = input,
                                    !.outcome = EmptyMap, !.pc = "exec"])
    ELSE OtherReturn([st EXCEPT !.status = "completed"],
                     [success |-> TRUE, results |-> st.results])

OtherRun(input) ==
  /\ pc \in {"exec", "gate"}
  /\ other.pc = "ready"
  /\ input \in env.inputs
  /\ OtherLoop(0, [OtherThis.state EXCEPT !.status = "running"],
               Spread(EmptyMap, input))

OtherExecuteThrows ==
  /\ other.pc = "exec"
  /\ OtherThis.agents[Step(other.i).agent] = "module"
  /\ OtherReturn([OtherThis.state EXCEPT !.status = "error"],
                 [success |-> FALSE, error |-> "Error", step |-> other.i])

OtherConfirmPoint(st, input, result) ==
  LET confirmType == Field(Step(other.i), "confirmType", "default")
      kind == IF confirmType \in {"trends", "suggestions"}
                THEN confirmType ELSE "default"
  IN  IF kind # "default" /\ "output" \notin DOMAIN result
        THEN OtherReturn([st EXCEPT !.status = "error"],
                         [success |-> FALSE, error |-> "TypeError",
                          step |-> other.i])
        ELSE OtherAssigns(st, OtherThis.agents,
                          [other EXCEPT !.currentInput = input,
                                        !.kind = kind, !.pc = "gate"])

OtherExecuteReturns(result) ==
  /\ other.pc = "exec"
  /\ result \in (IF OtherThis.agents[Step(other.i).agent] = "mock"
                   THEN {MockExecute(other.currentInput,
                                     StepOptions(Step(other.i)))}
                   ELSE env.results)
  /\ IF IsCancelled(result)
       THEN OtherReturn([OtherThis.state EXCEPT !.status = "cancelled"],
                        [success |-> FALSE, cancelled |-> TRUE])
       ELSE LET key == StepKey(Step(other.i))
                st1 == [OtherThis.state EXCEPT
                          !.results = RecordResult(@, key, result)]
                in1 == MergeOutput(other.currentInput, result)
            IN  IF NeedsConfirm(Step(other.i))
                  THEN OtherConfirmPoint(st1, in1, result)
                  ELSE OtherLoop(other.i + 1, st1, in1)

OtherAfterGate(shouldContinue) ==
  IF ~shouldContinue
    THEN OtherReturn([OtherThis.state EXCEPT !.status = "paused"],
                     [success |-> FALSE, paused |-> TRUE, step |-> other.i])
    ELSE OtherLoop(other.i + 1, OtherThis.state, other.currentInput)

OtherGateTrends(action) ==
  /\ other.pc = "gate"
  /\ other.kind = "trends"
  /\ OtherAfterGate(action = "continue")

OtherGateSuggestions(action) ==
  /\ other.pc = "gate"
  /\ other.kind = "suggestions"
  /\ OtherAfterGate(action # "cancel")

OtherGateDefault(answer) ==
  /\ other.pc = "gate"
  /\ other.kind = "default"
  /\ OtherAfterGate(confirm(normalized(answer), TRUE))

OtherGateThrows ==
  /\ other.pc = "gate"
  /\ OtherReturn([OtherThis.state EXCEPT !.status = "error"],
                 [success |-> FALSE, error |-> "Error", step |-> other.i])

\* One run() call on each of two Pipelines of a project, or two calls on one
\* Pipeline, over a workflow of at most two steps.
OverlapInit ==
  /\ wfFile = "json"
  /\ wf \in ShortWorkflows
  /\ env = ControlEnv
  /\ autoMode \in BOOLEAN
  /\ loadable = agentPaths
  /\ agents = EmptyMap
  /\ state = NewState
  /\ disk = EmptyMap
  /\ pc = "ready"
  /\ i = 0
  /\ currentInput = EmptyMap
  /\ objects = <<>>
  /\ outcome = EmptyMap
  /\ runNo = 0
  /\ runInput = EmptyMap
  /\ origin = EmptyMap
  /\ execLog = <<>>
  /\ retLog = <<>>
  /\ gateLog = <<>>
  /\ reply = ""
  /\ \E same \in BOOLEAN : other = NotCalled(same)

OverlapNext ==
  \/ \E input \in ControlEnv.inputs : Run(input)
  \/ ExecuteThrows
  \/ \E result \in BasicResults \cup
         (IF pc = "exec"
          THEN {MockExecute(currentInput, StepOptions(Step(i)))}
          ELSE {}) : ExecuteReturns(result)
  \/ \E action \in TrendActions : GateTrends(action)
  \/ \E action \in SuggestionActions : GateSuggestions(action)
  \/ \E answer \in Answers : GateDefault(answer)
  \/ GateThrows
  \/ \E input \in ControlEnv.inputs : OtherRun(input)
  \/ OtherExecuteThrows
  \/ \E result \in BasicResults \cup
         (IF other.pc = "exec"
          THEN {MockExecute(other.currentInput, StepOptions(Step(other.i)))}
          ELSE {}) : OtherExecuteReturns(result)
  \/ \E action \in TrendActions : OtherGateTrends(action)
  \/ \E action \in SuggestionActions : OtherGateSuggestions(action)
  \/ \E answer \in Answers : OtherGateDefault(answer)
  \/ OtherGateThrows

OverlapSpec == OverlapInit /\ [][OverlapNext]_vars

\* The awaited execute call settles: it returns a result or throws.
ExecuteResponds ==
  \/ ExecuteThrows
  \/ \E result \in RichResults \cup
         (IF pc = "exec"
          THEN {MockExecute(currentInput, StepOptions(Step(i)))}
          ELSE {}) : ExecuteReturns(result)

\* The awaited prompt settles: it resolves with a choice or rejects.
GateResponds ==
  \/ \E action \in TrendActions : GateTrends(action)
  \/ \E action \in SuggestionActions : GateSuggestions(action)
  \/ \E answer \in Answers : GateDefault(answer)
  \/ GateThrows

\* The runs in which no agent hangs and no prompt stays unanswered.
LiveSpec ==
  /\ Init
  /\ [][Next]_vars
  /\ WF_vars(ExecuteResponds)
  /\ WF_vars(GateResponds)

\* ======================================================== properties
\* The index of the step whose execute call was made last in this run.
LastStep == execLog[Len(execLog)].step

\* The keys under which the steps of workflow w record their results.
KeysOf(w) == { Field(w[n], "id", w[n].agent) : n \in DOMAIN w }

\* The 1-based position in the logs of the last step before position limit
\* that records under key (0 if there is none).
LastWriterOf(key, limit) ==
  LET ws == { n \in 1..limit : Field(wf[n], "id", wf[n].agent) = key }
  IN  IF ws = {} THEN 0 ELSE CHOOSE n \in ws : \A m \in ws : m <= n

\* Every execute call of this run has returned a non-cancelled success result.
AllSucceeded ==
  /\ Len(retLog) = Len(execLog)
  /\ \A n \in DOMAIN retLog :
       /\ "threw" \notin DOMAIN retLog[n]
       /\ retLog[n].success
       /\ "cancelled" \notin DOMAIN retLog[n]

\* The last execute call of this run threw.
LastThrew ==
  /\ retLog # <<>>
  /\ Len(retLog) = Len(execLog)
  /\ "threw" \in DOMAIN retLog[Len(retLog)]

\* The last execute call of this run returned a result with cancelled: true.
LastCancelled ==
  /\ retLog # <<>>
  /\ Len(retLog) = Len(execLog)
  /\ "cancelled" \in DOMAIN retLog[Len(retLog)]
  /\ retLog[Len(retLog)].cancelled

\* The last gate of this run returned "do not continue".
LastDeclined ==
  /\ gateLog # <<>>
  /\ "shouldContinue" \in DOMAIN gateLog[Len(gateLog)]
  /\ ~gateLog[Len(gateLog)].shouldContinue

\* The keys of results written by step j or a later step of the current run.
WrittenFrom(j) ==
  { key \in DOMAIN state.results :
      origin[key].run = runNo /\ origin[key].step >= j }

\* C1 (as stated): an auto-mode run in which every execute call succeeds
\* returns {success: true, results} with status 'completed' and results has
\* exactly N entries, one keyed by each step's id.
C1_AsStated ==
  (pc = "returned" /\ autoMode /\ AllSucceeded) =>
    /\ outcome = [success |-> TRUE, results |-> state.results]
    /\ state.status = "completed"
    /\ Cardinality(DOMAIN state.results) = Len(wf)
    /\ \A n \in DOMAIN wf : Field(wf[n], "id", wf[n].agent) \in DOMAIN state.results

\* C1 (amended): an auto-mode run in which every execute call succeeds executes
\* all N steps and returns {success: true, results} with status 'completed';
\* results has exactly one entry per distinct step key, holding the result of
\* the last step with that key, hence N entries when the keys are distinct.
C1_AutoRunCompletes ==
  (pc = "returned" /\ autoMode /\ AllSucceeded) =>
    /\ outcome = [success |-> TRUE, results |-> state.results]
    /\ state.status = "completed"
    /\ Len(execLog) = Len(wf)
    /\ DOMAIN state.results = KeysOf(wf)
    /\ \A key \in KeysOf(wf) :
         state.results[key] = retLog[LastWriterOf(key, Len(wf))]
    /\ (Cardinality(KeysOf(wf)) = Len(wf)) =>
         (Cardinality(DOMAIN state.results) = Len(wf))

C1_Witness ==
  /\ pc = "returned" /\ autoMode /\ AllSucceeded
  /\ Len(wf) >= 3
  /\ Cardinality(KeysOf(wf)) = Len(wf)
  /\ Cardinality(DOMAIN state.results) = Len(wf)

\* C2: when execute of step k throws, run returns {success: false, error,
\* step: k} with status 'error', no later step is executed, and results holds
\* no entry written by step k or by a later step.
C2_ThrowHaltsRun ==
  LastThrew =>
    /\ pc \in {"returned", "ready"}
    /\ Len(execLog) = LastStep + 1
    /\ pc = "returned" =>
         /\ outcome = [success |-> FALSE, error |-> "Error", step |-> LastStep]
         /\ state.status = "error"
         /\ state.currentStep = LastStep
         /\ WrittenFrom(LastStep) = {}

C2_Witness ==
  /\ LastThrew /\ pc = "returned"
  /\ LastStep >= 1
  /\ LastStep + 1 < Len(wf)
  /\ state.results # EmptyMap

\* C3: a result with cancelled: true short-circuits the run: status becomes
\* 'cancelled', run returns {success: false, cancelled: true} at once, no gate
\* is invoked for that step and no later step is executed.
C3_CancelShortCircuits ==
  \A n \in DOMAIN retLog :
    ("cancelled" \in DOMAIN retLog[n] /\ retLog[n].cancelled) =>
      /\ n = Len(retLog) /\ n = Len(execLog)
      /\ pc \in {"returned", "ready"}
      /\ \A m \in DOMAIN execLog : execLog[m].step <= execLog[n].step
      /\ \A g \in DOMAIN gateLog : gateLog[g].step # execLog[n].step
      /\ pc = "returned" =>
           /\ outcome = [success |-> FALSE, cancelled |-> TRUE]
           /\ state.status = "cancelled"

C3_Witness ==
  /\ LastCancelled /\ pc = "returned"
  /\ ~autoMode
  /\ "confirm" \in DOMAIN Step(LastStep)
  /\ LastStep >= 1
  /\ LastStep + 1 < Len(wf)

\* C4 (as stated): when step k returns cancelled: true and run returns,
\* results contains entries for the steps 0..k, step k's own result included,
\* and none for later steps.
C4_AsStated ==
  (LastCancelled /\ pc = "returned") =>
    /\ \A j \in 0..LastStep :
         /\ Field(Step(j), "id", Step(j).agent) \in DOMAIN state.results
         /\ origin[Field(Step(j), "id", Step(j).agent)].run = runNo
    /\ WrittenFrom(LastStep) # {}
    /\ WrittenFrom(LastStep + 1) = {}

\* C4 (amended): when step k returns cancelled: true and run returns, results
\* contains the entries recorded by steps 0..k-1 of this run and none written
\* by step k or a later step: the cancelled result itself is never recorded.
C4_CancelledNotRecorded ==
  /\ \A key \in DOMAIN state.results :
       "cancelled" \notin DOMAIN state.results[key]
  /\ (LastCancelled /\ pc = "returned") =>
       /\ WrittenFrom(LastStep) = {}
       /\ \A j \in 0..(LastStep - 1) :
            LET key == Field(Step(j), "id", Step(j).agent)
            IN  /\ key \in DOMAIN state.results
                /\ origin[key].run = runNo
                /\ state.results[key] = retLog[LastWriterOf(key, LastStep)]

C4_Witness ==
  /\ LastCancelled /\ pc = "returned"
  /\ LastStep >= 2
  /\ Cardinality(DOMAIN state.results) >= 2

\* C5: when the gate of step k declines (step k requiring confirmation in
\* non-auto mode), run returns {success: false, paused: true, step: k} with
\* status 'paused'; results holds step k's own result and nothing written by a
\* later step, and step k+1 is never executed.
C5_DeclinePauses ==
  \A n \in DOMAIN gateLog :
    ("shouldContinue" \in DOMAIN gateLog[n] /\ ~gateLog[n].shouldContinue) =>
      LET k == gateLog[n].step
          key == Field(Step(k), "id", Step(k).agent)
      IN  /\ n = Len(gateLog)
          /\ ~autoMode /\ "confirm" \in DOMAIN Step(k) /\ Step(k).confirm
          /\ pc \in {"returned", "ready"}
          /\ LastStep = k
          /\ pc = "returned" =>
               /\ outcome = [success |-> FALSE, paused |-> TRUE, step |-> k]
               /\ state.status = "paused"
               /\ key \in DOMAIN state.results
               /\ state.results[key] = retLog[k + 1]
               /\ origin[key] = [run |-> runNo, step |-> k]
               /\ WrittenFrom(k + 1) = {}

C5_Witness ==
  /\ LastDeclined /\ pc = "returned"
  /\ LastStep >= 1
  /\ LastStep + 1 < Len(wf)

\* C6: in auto mode no confirmation gate is ever invoked, whatever the steps'
\* confirm flags, and run never returns the paused outcome.
C6_AutoSkipsGates ==
  autoMode =>
    /\ gateLog = <<>>
    /\ pc # "gate"
    /\ "paused" \notin DOMAIN outcome

C6_Witness ==
  /\ autoMode /\ pc = "returned"
  /\ state.status = "completed"
  /\ Len(wf) >= 2
  /\ \A n \in DOMAIN wf : "confirm" \in DOMAIN wf[n] /\ wf[n].confirm

\* C7: a step whose agent name cannot be resolved (so that the mock agent is
\* substituted) never makes run end in the error outcome at that step.
C7_MockNeverFailsRun ==
  (pc = "returned" /\ "error" \in DOMAIN outcome) =>
    agents[Step(outcome.step).agent] # "mock"

\* C8 (as stated): the step executed with the substituted mock agent yields a
\* result with success: true whose output mapping is {mock: true, input,
\* options}, input and options being the ones passed to execute.
C8_AsStated ==
  \A n \in DOMAIN retLog :
    (agents[Step(execLog[n].step).agent] = "mock") =>
      /\ retLog[n].success
      /\ "output" \in DOMAIN retLog[n]
      /\ retLog[n].output = [mock |-> TRUE, input |-> execLog[n].input,
                             options |-> execLog[n].options]

\* C8 (amended): resolving an unregistered agent name never raises (the name is
\* cached as the mock agent), and the step executed with the mock agent yields
\* the result {success: true, mock: true, input, options} with the input and
\* options passed to execute; the result has no output mapping, so the next
\* step receives the same input.
C8_MockResult ==
  /\ \A n \in DOMAIN execLog :
       LET name == Step(execLog[n].step).agent
       IN  /\ name \in DOMAIN agents
           /\ (name \notin agentPaths) => (agents[name] = "mock")
  /\ \A n \in DOMAIN retLog :
       (agents[Step(execLog[n].step).agent] = "mock") =>
         /\ retLog[n] = [success |-> TRUE, mock |-> TRUE,
                         input |-> execLog[n].input,
                         options |-> execLog[n].options]
         /\ "output" \notin DOMAIN retLog[n]
         /\ (n < Len(execLog)) => (execLog[n + 1].input = execLog[n].input)

C8_Witness ==
  /\ Len(retLog) >= 2
  /\ Len(execLog) > Len(retLog)
  /\ Step(execLog[Len(retLog)].step).agent = "publisher_agent"
  /\ "mock" \in DOMAIN retLog[Len(retLog)]
  /\ retLog[Len(retLog)].input = ("trends" :> 1)

\* C9: ExecutionInput accretion is last-writer-wins: for every executed step
\* and every key, the input passed to execute holds the value of the latest
\* earlier step whose output contains that key, or the caller's initial value
\* if there is none; a key once present is never removed.
C9_LastWriterWins ==
  \A n \in DOMAIN execLog : \A key \in Keys :
    LET writers == { m \in 1..(n - 1) :
                       /\ "output" \in DOMAIN retLog[m]
                       /\ key \in DOMAIN retLog[m].output }
        last == CHOOSE m \in writers : \A w \in writers : w <= m
        in == execLog[n].input
    IN  /\ DOMAIN in \subseteq Keys
        /\ IF writers # {}
             THEN key \in DOMAIN in /\ in[key] = retLog[last].output[key]
             ELSE IF key \in DOMAIN runInput
                    THEN key \in DOMAIN in /\ in[key] = runInput[key]
                    ELSE key \notin DOMAIN in

C9_Witness ==
  /\ Len(execLog) >= 3
  /\ runInput = ("trends" :> 1) @@ ("style" :> 1)
  /\ retLog[1] = [success |-> TRUE, output |-> ("trends" :> 1)]
  /\ retLog[2] = [success |-> TRUE, output |-> ("trends" :> 2)]
  /\ execLog[3].input = ("trends" :> 2) @@ ("style" :> 1)

\* C10: completed, cancelled and error are terminal: once state.status has one
\* of these values, no operation on the Pipeline changes it.
C10_TerminalStatus ==
  [][state.status \in {"completed", "cancelled", "error"}
       => state'.status = state.status]_vars

\* The last gate of this run, once its prompt has resolved.
LastGate == gateLog[Len(gateLog)]

LastGateResolved(kind) ==
  /\ gateLog # <<>>
  /\ LastGate.kind = kind
  /\ "shouldContinue" \in DOMAIN LastGate

\* The run went on past the step of its last gate: the next step was started,
\* or, after the last step, run returned the completed outcome.
WentOnPastLastGate ==
  IF LastGate.step + 1 < Len(wf)
    THEN Len(execLog) >= LastGate.step + 2
    ELSE /\ pc \in {"returned", "ready"}
         /\ pc = "returned" =>
              /\ outcome = [success |-> TRUE, results |-> state.results]
              /\ state.status = "completed"

\* The run stopped at the step of its last gate with the paused outcome.
PausedAtLastGate ==
  /\ pc \in {"returned", "ready"}
  /\ LastStep = LastGate.step
  /\ pc = "returned" =>
       /\ outcome = [success |-> FALSE, paused |-> TRUE, step |-> LastGate.step]
       /\ state.status = "paused"
       /\ state.currentStep = LastGate.step

\* C11: a paused Pipeline is resumable: when run() is called on a Pipeline
\* whose state is paused at step k, the first step it executes is step k, and
\* the steps before k are not executed again.
C11_ResumesFromPersistedStep ==
  [][(state.status = "paused" /\ runNo' = runNo + 1 /\ pc' = "exec")
       => execLog'[1].step = state.currentStep]_vars

\* C12: whenever run has returned the paused outcome at step k, the checkpoint
\* document holds the run state: status paused, currentStep k and the results.
C12_PausedIsSaved ==
  (pc = "returned" /\ "paused" \in DOMAIN outcome) =>
    /\ disk # EmptyMap
    /\ disk.doc.status = "paused"
    /\ disk.doc.currentStep = outcome.step
    /\ DOMAIN disk.doc.results = DOMAIN state.results

\* C13: round trip: loadState after saveState leaves a state equal to the
\* {currentStep, status, results} that was saved.
C13_RoundTrip ==
  [][(loadState /\ disk # EmptyMap) => state' = disk.saved]_vars

C15_StrictOrder ==
  /\ \A n \in DOMAIN execLog : execLog[n].step = n - 1
  /\ Len(execLog) <= Len(wf)
  /\ Len(retLog) = IF pc = "exec" THEN Len(execLog) - 1 ELSE Len(execLog)
  /\ \A n \in 1..(Len(execLog) - 1) :
       /\ "threw" \notin DOMAIN retLog[n]
       /\ ~IsCancelled(retLog[n])
       /\ (Truthy(Step(n - 1), "confirm") /\ ~autoMode) =>
            \E g \in DOMAIN gateLog :
              /\ gateLog[g].step = n - 1
              /\ "shouldContinue" \in DOMAIN gateLog[g]
              /\ gateLog[g].shouldContinue
  /\ \A g, h \in DOMAIN gateLog : g < h => gateLog[g].step < gateLog[h].step
  /\ ("success" \in DOMAIN outcome /\ outcome.success) =>
       Len(execLog) = Len(wf)

C15_Witness ==
  /\ pc = "exec"
  /\ ~autoMode
  /\ Len(execLog) = 3
  /\ Len(gateLog) = 2

\* C16: state is fresh per run(): when a run() on a Pipeline that has not
\* loaded a checkpoint is executing its first step, results is empty,
\* whatever runs were made on the instance before.
C16_ResultsFreshPerRun ==
  (pc = "exec" /\ Len(execLog) = 1 /\ disk = EmptyMap) =>
    state.results = EmptyMap

\* C17: a trends gate continues only on the accept action: the run goes on to
\* the next step when the action is continue, and returns the paused outcome
\* at that step for each of edit, add, retry and cancel.
C17_TrendsGate ==
  LastGateResolved("trends") =>
    /\ reply \in {"continue", "edit", "add", "retry", "cancel"}
    /\ LastGate.shouldContinue <=> (reply = "continue")
    /\ (reply = "continue") => WentOnPastLastGate
    /\ (reply \in {"edit", "add", "retry", "cancel"}) => PausedAtLastGate

C17_Witness ==
  /\ LastGateResolved("trends")
  /\ reply = "retry"
  /\ pc = "returned"
  /\ LastGate.step = 1

\* C18: a suggestions gate continues for apply, skip and manual, and the run
\* returns the paused outcome at that step only for cancel.
C18_SuggestionsGate ==
  LastGateResolved("suggestions") =>
    /\ reply \in {"apply", "skip", "manual", "cancel"}
    /\ LastGate.shouldContinue <=> (reply # "cancel")
    /\ (reply \in {"apply", "skip", "manual"}) => WentOnPastLastGate
    /\ (reply = "cancel") => PausedAtLastGate

C18_Witness ==
  /\ LastGateResolved("suggestions")
  /\ reply = "manual"
  /\ pc = "exec"
  /\ LastStep = LastGate.step + 1

C20_MissingListIsEmpty ==
  \A n \in DOMAIN retLog :
    LET step == Step(n - 1)
        kind == Field(step, "confirmType", "default")
        result == retLog[n]
    IN  ( /\ Truthy(step, "confirm") /\ ~autoMode
          /\ kind \in {"trends", "suggestions"}
          /\ "threw" \notin DOMAIN result
          /\ ~IsCancelled(result)
          /\ \/ "output" \notin DOMAIN result
             \/ kind \notin DOMAIN result.output )
        => /\ \E g \in DOMAIN gateLog :
                gateLog[g].step = n - 1 /\ gateLog[g].list = {}
           /\ "error" \notin DOMAIN outcome

\* A run() call is in progress: suspended at an execute call or at a gate.
InProgress == pc \in {"exec", "gate"}

\* The execute calls of this run whose result was recorded: the call returned
\* and the result was not a cancellation.
RecordedCalls ==
  { n \in DOMAIN retLog :
      /\ "threw" \notin DOMAIN retLog[n]
      /\ ~("cancelled" \in DOMAIN retLog[n] /\ retLog[n].cancelled) }

\* The run went on after the n-th execute call without being stopped at a
\* gate: the step needs no confirmation, or its gate returned continue.
PassedGateOf(n) ==
  \/ ~("confirm" \in DOMAIN wf[n] /\ wf[n].confirm)
  \/ autoMode
  \/ \E g \in DOMAIN gateLog :
       /\ gateLog[g].step = n - 1
       /\ "shouldContinue" \in DOMAIN gateLog[g]
       /\ gateLog[g].shouldContinue

\* C21: an agent name is resolved at most once per Pipeline: an entry of the
\* cache is never replaced or removed, whether it holds a module or the mock
\* made after a failed load, and the cache grows only by the agent of the
\* step being started.
C21_AgentResolvedOnce ==
  [][/\ \A name \in DOMAIN agents :
          name \in DOMAIN agents' /\ agents'[name] = agents[name]
     /\ agents' # agents =>
          /\ pc' = "exec"
          /\ DOMAIN agents' = DOMAIN agents \cup {wf[i' + 1].agent}]_vars

C21_Witness ==
  /\ pc = "exec"
  /\ runNo = 2
  /\ Step(i).agent = "editor_agent"
  /\ agents["editor_agent"] = "mock"
  /\ "editor_agent" \in loadable

\* C22: while a run is in progress state.currentStep never decreases, lies in
\* 0..N-1 and is the index of the step being executed or confirmed; the
\* step of a paused or error outcome is state.currentStep.
C22_CurrentStepAdvances ==
  [][/\ InProgress => state'.currentStep >= state.currentStep
     /\ pc' \in {"exec", "gate"} =>
          /\ state'.currentStep \in 0..(Len(wf) - 1)
          /\ state'.currentStep = i'
          /\ state'.currentStep = execLog'[Len(execLog')].step
          /\ pc' = "gate" =>
               state'.currentStep = gateLog'[Len(gateLog')].step
     /\ (pc' = "returned" /\ "step" \in DOMAIN outcome') =>
          outcome'.step = state'.currentStep]_vars

C22_Witness ==
  /\ pc = "returned"
  /\ "paused" \in DOMAIN outcome
  /\ outcome.step = 2
  /\ state.currentStep = 2

\* C23: loadState without a checkpoint document raises nothing and leaves
\* currentStep, status and results as they were.
C23_LoadWithoutCheckpoint ==
  [][(pc' = "ready" /\ disk = EmptyMap) => state' = state]_vars

C23_Witness ==
  /\ pc = "ready"
  /\ disk = EmptyMap
  /\ runNo = 1
  /\ state.status = "paused"
  /\ state.currentStep = 1

\* C26: a fault raised by the gate of step k does not leave run: run returns
\* {success: false, error, step: k} with status error, no later step has been
\* executed, and results holds the entry recorded for step k.  run throws
\* only for a workflow document that was not found.
C26_GateFaultCaught ==
  /\ pc = "threw" => wfFile # "json"
  /\ (/\ pc = "returned"
      /\ "error" \in DOMAIN outcome
      /\ "threw" \notin DOMAIN retLog[Len(retLog)]) =>
       LET k == LastStep
           key == Field(Step(k), "id", Step(k).agent)
       IN  /\ outcome.success = FALSE
           /\ outcome.step = k
           /\ DOMAIN outcome = {"success", "error", "step"}
           /\ state.status = "error"
           /\ "confirm" \in DOMAIN Step(k) /\ Step(k).confirm /\ ~autoMode
           /\ Len(execLog) = k + 1
           /\ key \in DOMAIN state.results
           /\ state.results[key] = retLog[k + 1]
           /\ origin[key] = [run |-> runNo, step |-> k]
           /\ WrittenFrom(k + 1) = {}

C26_Witness ==
  /\ pc = "returned"
  /\ "error" \in DOMAIN outcome
  /\ outcome.error = "Error"
  /\ "threw" \notin DOMAIN retLog[Len(retLog)]
  /\ LastStep = 1
  /\ Len(wf) = 3

\* C27: when run has returned an outcome, state.status matches it: completed
\* iff success, paused iff paused, cancelled iff cancelled, error iff error;
\* status is running exactly while a run is in progress.
C27_StatusMatchesOutcome ==
  /\ pc = "returned" =>
       /\ state.status \in {"completed", "paused", "cancelled", "error"}
       /\ (state.status = "completed") <=> outcome.success
       /\ (state.status = "paused") <=>
            ("paused" \in DOMAIN outcome /\ outcome.paused)
       /\ (state.status = "cancelled") <=>
            ("cancelled" \in DOMAIN outcome /\ outcome.cancelled)
       /\ (state.status = "error") <=> ("error" \in DOMAIN outcome)
  /\ (state.status = "running") <=> InProgress

C27_Witness ==
  /\ pc = "returned"
  /\ state.status = "cancelled"
  /\ outcome = [success |-> FALSE, cancelled |-> TRUE]
  /\ runNo = 2

\* C28: a returned result with success: false that is not a cancellation does
\* not stop the run: it is recorded, its output (if any) is merged into the
\* next step's input, and unless its gate stops the run the next step is
\* executed, or after the last step run returns the completed outcome.
C28_FailureDoesNotStop ==
  \A n \in DOMAIN retLog :
    ( /\ "threw" \notin DOMAIN retLog[n]
      /\ ~retLog[n].success
      /\ ~("cancelled" \in DOMAIN retLog[n] /\ retLog[n].cancelled) ) =>
      LET key == Field(wf[n], "id", wf[n].agent)
          out == IF "output" \in DOMAIN retLog[n]
                   THEN retLog[n].output ELSE EmptyMap
      IN  /\ (pc # "ready" /\ \A m \in RecordedCalls :
                                m > n => Field(wf[m], "id", wf[m].agent) # key)
               => /\ key \in DOMAIN state.results
                  /\ state.results[key] = retLog[n]
          /\ n < Len(execLog) =>
               execLog[n + 1].input =
                 [f \in DOMAIN execLog[n].input \cup DOMAIN out |->
                    IF f \in DOMAIN out THEN out[f] ELSE execLog[n].input[f]]
          /\ (PassedGateOf(n) /\ n < Len(wf)) => Len(execLog) >= n + 1
          /\ (PassedGateOf(n) /\ n = Len(wf) /\ pc = "returned") =>
               /\ outcome = [success |-> TRUE, results |-> state.results]
               /\ state.status = "completed"

C28_Witness ==
  /\ pc = "returned"
  /\ state.status = "completed"
  /\ outcome.success
  /\ Len(retLog) = 2
  /\ retLog[1] = [success |-> FALSE, output |-> ("style" :> 2)]
  /\ execLog[2].input = ("trends" :> 2) @@ ("style" :> 2)

\* C29: run never changes the mapping the caller passed, nor a mapping it has
\* handed to an execute call: the n-th call received the mapping created by
\* the merge before it (the copy of the caller's mapping for the first call)
\* and that mapping still has the content it had at the call.
C29_InputsNotMutated ==
  runNo > 0 =>
    /\ objects[1] = runInput
    /\ \A n \in DOMAIN execLog :
         /\ Len(objects) >= n + 1
         /\ objects[n + 1] = execLog[n].input

C29_Witness ==
  /\ Len(execLog) = 3
  /\ Len(objects) = 4
  /\ objects[1] = EmptyMap
  /\ objects[3] = ("trends" :> 1)
  /\ objects[4] = ("trends" :> 2)

\* C30: steps that share a result key share one entry of results, which holds
\* the result of the step executed last among them; the entries written by a
\* run are as many as the distinct keys of its recorded steps.
C30_OneEntryPerKey ==
  InProgress \/ pc = "returned" =>
    LET KeyOfCall(n) == Field(wf[n], "id", wf[n].agent)
        written == { key \in DOMAIN state.results : origin[key].run = runNo }
    IN  /\ \A n \in RecordedCalls :
             LET same == { m \in RecordedCalls : KeyOfCall(m) = KeyOfCall(n) }
                 last == CHOOSE m \in same : \A o \in same : o <= m
             IN  /\ KeyOfCall(n) \in DOMAIN state.results
                 /\ state.results[KeyOfCall(n)] = retLog[last]
        /\ written = { KeyOfCall(n) : n \in RecordedCalls }
        /\ Cardinality(written) <= Cardinality(RecordedCalls)
        /\ (runNo = 1 /\ disk = EmptyMap) => DOMAIN state.results = written

C30_Witness ==
  /\ pc = "returned"
  /\ outcome.success
  /\ Len(retLog) = 3
  /\ Cardinality(DOMAIN state.results) = 2
  /\ retLog[2] # retLog[3]
  /\ Field(wf[2], "id", wf[2].agent) = Field(wf[3], "id", wf[3].agent)

\* C25: when every execute call and every prompt settles, a run in progress
\* eventually returns an outcome, and no run makes more than N execute calls
\* or invokes more than N gates for a workflow of N steps.
C25_RunReturns ==
  /\ [](Len(execLog) <= Len(wf) /\ Len(gateLog) <= Len(wf))
  /\ InProgress ~> (pc = "returned")

C25_Witness ==
  /\ pc = "returned"
  /\ Len(wf) = 3
  /\ Len(execLog) = 3
  /\ Len(gateLog) = 3
  /\ "paused" \in DOMAIN outcome

\* C24: the run state is not shared between overlapping run() calls: while a
\* call is suspended at an execute call or a gate, no step of the other call
\* changes the status, currentStep or results of its Pipeline, on the same
\* instance or on two instances of the project.
C24_RunsIsolated ==
  [][/\ (pc \in {"exec", "gate"} /\ other' # other) => state' = state
     /\ (other.pc \in {"exec", "gate"} /\ other' = other /\ ~other.same) =>
          other'.state = other.state
     /\ (other.pc \in {"exec", "gate"} /\ other' = other /\ other.same) =>
          state' = state]_vars

====
